---- MODULE Spec2Model ----
(***************************************************************************)
(* Command builders of postgresql-embedded: VacuumLoBuilder (vacuumlo.rs)  *)
(* and PgRestoreBuilder (pg_restore.rs).  A builder is a flat record of    *)
(* Option / bool fields; every setter takes the builder by value, assigns  *)
(* one field and returns the builder; get_args / get_envs read the fields  *)
(* and push tokens onto a fresh Vec in a fixed order.                      *)
(*                                                                         *)
(* One behaviour follows ONE builder object (kind says of which type)      *)
(* through its chain of setter calls.  Option<T> is modelled as a sequence *)
(* of length 0 (None) or 1 (Some(v)).  OsString / PathBuf values are TLA+  *)
(* strings, usize / u16 values are integers rendered by to_string.         *)
(***************************************************************************)
EXTENDS Integers, Sequences, FiniteSets

VARIABLES
    kind,     \* "vacuumlo" | "pg_restore": the type of the builder followed
    vb,       \* the VacuumLoBuilder's fields
    vctor,    \* None after VacuumLoBuilder::new(), Some(settings) after ::from(settings)
    vlog,     \* history: per VacuumLoBuilder setter, the last argument it was called with
    rb,       \* the PgRestoreBuilder's fields
    rlog,     \* history: per PgRestoreBuilder setter, the last argument it was called with
    rchain,   \* how many calls of the tests::test_builder chain were made so far
    rextra    \* how many PgRestoreBuilder setter calls outside that chain were made

vars == <<kind, vb, vctor, vlog, rb, rlog, rchain, rextra>>

vvars == <<vb, vctor, vlog>>

rvars == <<rb, rlog, rchain, rextra>>

-----------------------------------------------------------------------------
(* Option<T> *)

None == <<>>

Some(v) == <<v>>

IsSome(o) == Len(o) > 0

-----------------------------------------------------------------------------
(* usize::to_string / u16::to_string: the decimal rendering, most          *)
(* significant digit first, no sign, no padding.                           *)

Digit(d) ==
    CASE d = 0 -> "0" [] d = 1 -> "1" [] d = 2 -> "2" [] d = 3 -> "3"
      [] d = 4 -> "4" [] d = 5 -> "5" [] d = 6 -> "6" [] d = 7 -> "7"
      [] d = 8 -> "8" [] d = 9 -> "9"

RECURSIVE to_string(_)
to_string(n) == IF n < 10 THEN Digit(n) ELSE to_string(n \div 10) \o Digit(n % 10)

-----------------------------------------------------------------------------
(* The two push patterns of get_args.                                      *)

\* if self.flag { args.push(tok) }
PushFlag(flag, tok) == IF flag THEN <<tok>> ELSE <<>>

\* if let Some(v) = &self.field { args.push(tok); args.push(v.into()) }
PushValue(field, tok) == IF IsSome(field) THEN <<tok, field[1]>> ELSE <<>>

\* if let Some(n) = &self.field { args.push(tok); args.push(n.to_string().into()) }
PushNumber(field, tok) == IF IsSome(field) THEN <<tok, to_string(field[1])>> ELSE <<>>

-----------------------------------------------------------------------------
(* Arguments the setters are called with.  The string sets overlap on      *)
(* purpose (a user name that is also the password, a host spelled like a   *)
(* flag): the setters accept any OsStr.                                    *)

\* Exploration bound: PgRestoreBuilder setter calls made outside the chain of
\* tests::test_builder (see RCall).
MaxExtraCalls == 1

ProgramDirs == {".", "/usr/bin"}

Limits == {0, 100}

Hosts == {"localhost", "--verbose"}

Ports == {5432, 65535}

Usernames == {"postgres", "admin"}

Passwords == {"password", "postgres"}

\* The Settings providers VacuumLoBuilder::from is called with; the first is
\* the TestSettings of tests::test_builder_from.
SettingsProviders ==
    { [binary_dir |-> ".", host |-> "localhost", port |-> 5432,
       username |-> "postgres", password |-> "password"],
      [binary_dir |-> "/usr/bin", host |-> "--verbose", port |-> 65535,
       username |-> "admin", password |-> "postgres"] }

-----------------------------------------------------------------------------
(* VacuumLoBuilder *)

VFields ==
    {"program_dir", "limit", "dry_run", "verbose", "version", "help", "host",
     "port", "username", "no_password", "password", "pg_password"}

\* #[derive(Default)]: every Option is None, every bool false.
V_new_verbose_default ==
    [program_dir |-> None, limit |-> None, dry_run |-> FALSE, verbose |-> TRUE,
     version |-> FALSE, help |-> FALSE, host |-> None, port |-> None,
     username |-> None, no_password |-> FALSE, password |-> FALSE,
     pg_password |-> None]

V_new ==
    [program_dir |-> None, limit |-> None, dry_run |-> FALSE, verbose |-> FALSE,
     version |-> FALSE, help |-> FALSE, host |-> None, port |-> None,
     username |-> None, no_password |-> FALSE, password |-> FALSE,
     pg_password |-> None]

V_get_program == "vacuumlo"

\* A get_program_dir that never hands out the directory.
V_get_program_dir_always_none(b) == None

V_get_program_dir(b) == b.program_dir

\* A get_args that also pushes the stored password as the value of --password.
V_get_args_leaks_password(b) ==
    PushNumber(b.limit, "--limit")
    \o PushFlag(b.dry_run, "--dry-run")
    \o PushFlag(b.verbose, "--verbose")
    \o PushFlag(b.version, "--version")
    \o PushFlag(b.help, "--help")
    \o PushValue(b.host, "--host")
    \o PushNumber(b.port, "--port")
    \o PushValue(b.username, "--username")
    \o PushFlag(b.no_password, "--no-password")
    \o PushFlag(b.password, "--password")
    \o PushValue(b.pg_password, "--password")

\* A get_args whose --host and --port blocks are exchanged.
V_get_args_port_before_host(b) ==
    PushNumber(b.limit, "--limit")
    \o PushFlag(b.dry_run, "--dry-run")
    \o PushFlag(b.verbose, "--verbose")
    \o PushFlag(b.version, "--version")
    \o PushFlag(b.help, "--help")
    \o PushNumber(b.port, "--port")
    \o PushValue(b.host, "--host")
    \o PushValue(b.username, "--username")
    \o PushFlag(b.no_password, "--no-password")
    \o PushFlag(b.password, "--password")

V_get_args(b) ==
    PushNumber(b.limit, "--limit")
    \o PushFlag(b.dry_run, "--dry-run")
    \o PushFlag(b.verbose, "--verbose")
    \o PushFlag(b.version, "--version")
    \o PushFlag(b.help, "--help")
    \o PushValue(b.host, "--host")
    \o PushNumber(b.port, "--port")
    \o PushValue(b.username, "--username")
    \o PushFlag(b.no_password, "--no-password")
    \o PushFlag(b.password, "--password")

V_get_envs(b) ==
    IF IsSome(b.pg_password) THEN << <<"PGPASSWORD", b.pg_password[1]>> >> ELSE <<>>

\* One setter call on the VacuumLoBuilder: the builder moves into the setter
\* and the setter returns it with the field assigned.
VCall(field, arg, after) ==
    /\ kind = "vacuumlo"
    /\ vb' = after
    /\ vlog' = [vlog EXCEPT ![field] = Some(arg)]
    /\ UNCHANGED <<kind, vctor, rvars>>

V_program_dir ==
    \E path \in ProgramDirs :
        VCall("program_dir", path, [vb EXCEPT !.program_dir = Some(path)])

V_limit ==
    \E limit \in Limits : VCall("limit", limit, [vb EXCEPT !.limit = Some(limit)])

V_dry_run == VCall("dry_run", TRUE, [vb EXCEPT !.dry_run = TRUE])

V_verbose == VCall("verbose", TRUE, [vb EXCEPT !.verbose = TRUE])

V_version == VCall("version", TRUE, [vb EXCEPT !.version = TRUE])

V_help == VCall("help", TRUE, [vb EXCEPT !.help = TRUE])

V_host ==
    \E host \in Hosts : VCall("host", host, [vb EXCEPT !.host = Some(host)])

V_port ==
    \E port \in Ports : VCall("port", port, [vb EXCEPT !.port = Some(port)])

V_username ==
    \E username \in Usernames :
        VCall("username", username, [vb EXCEPT !.username = Some(username)])

\* A no_password that also withdraws a forced password prompt.
V_no_password_clears_password ==
    VCall("no_password", TRUE, [vb EXCEPT !.no_password = TRUE, !.password = FALSE])

V_no_password == VCall("no_password", TRUE, [vb EXCEPT !.no_password = TRUE])

V_password == VCall("password", TRUE, [vb EXCEPT !.password = TRUE])

V_pg_password ==
    \E pg_password \in Passwords :
        VCall("pg_password", pg_password,
              [vb EXCEPT !.pg_password = Some(pg_password)])

\* The chain of VacuumLoBuilder::from, on the builder new() returned.
FromChain(b, settings) ==
    [b EXCEPT !.program_dir = Some(settings.binary_dir),
              !.host = Some(settings.host),
              !.port = Some(settings.port),
              !.username = Some(settings.username),
              !.pg_password = Some(settings.password)]

\* A from that hands the user name to host() and never calls username().
V_from_drops_username ==
    \E settings \in SettingsProviders :
        /\ kind = "vacuumlo"
        /\ vctor = None
        /\ vlog = [f \in VFields |-> None]
        /\ vb' = [FromChain(V_new, settings) EXCEPT !.username = None]
        /\ vctor' = Some(settings)
        /\ vlog' = [vlog EXCEPT !["program_dir"] = Some(settings.binary_dir),
                                !["host"] = Some(settings.host),
                                !["port"] = Some(settings.port),
                                !["username"] = Some(settings.username),
                                !["pg_password"] = Some(settings.password)]
        /\ UNCHANGED <<kind, rvars>>

\* VacuumLoBuilder::from(settings): a constructor, so it is the first thing
\* that happens to the builder: Self::new() followed by five setter calls.
V_from ==
    \E settings \in SettingsProviders :
        /\ kind = "vacuumlo"
        /\ vctor = None
        /\ vlog = [f \in VFields |-> None]
        /\ vb' = FromChain(V_new, settings)
        /\ vctor' = Some(settings)
        /\ vlog' = [vlog EXCEPT !["program_dir"] = Some(settings.binary_dir),
                                !["host"] = Some(settings.host),
                                !["port"] = Some(settings.port),
                                !["username"] = Some(settings.username),
                                !["pg_password"] = Some(settings.password)]
        /\ UNCHANGED <<kind, rvars>>

VNext ==
    \/ V_from
    \/ V_program_dir
    \/ V_limit
    \/ V_dry_run
    \/ V_verbose
    \/ V_version
    \/ V_help
    \/ V_host
    \/ V_port
    \/ V_username
    \/ V_no_password
    \/ V_password
    \/ V_pg_password

-----------------------------------------------------------------------------
(* PgRestoreBuilder *)

\* Arguments the OsStr setters of PgRestoreBuilder are called with.
RNames == {"test", "localhost"}

RFields ==
    {"program_dir", "dbname", "file", "format", "list", "verbose", "version",
     "help", "data_only", "clean", "create", "exit_on_error", "index",
     "jobs", "use_list", "schema", "exclude_schema", "no_owner", "function",
     "schema_only", "superuser", "table", "trigger", "no_privileges",
     "single_transaction", "disable_triggers", "enable_row_security",
     "if_exists", "no_comments", "no_data_for_failed_tables",
     "no_publications", "no_security_labels", "no_subscriptions",
     "no_table_access_method", "no_tablespaces", "section", "strict_names",
     "use_set_session_authorization", "host", "port", "username",
     "no_password", "password", "role"}

\* #[derive(Default)]: every Option is None, every bool false.
R_new ==
    [program_dir |-> None, dbname |-> None, file |-> None, format |-> None,
     list |-> FALSE, verbose |-> FALSE, version |-> FALSE, help |-> FALSE,
     data_only |-> FALSE, clean |-> FALSE, create |-> FALSE,
     exit_on_error |-> FALSE, index |-> None, jobs |-> None,
     use_list |-> None, schema |-> None, exclude_schema |-> None,
     no_owner |-> FALSE, function |-> None, schema_only |-> FALSE,
     superuser |-> None, table |-> None, trigger |-> None,
     no_privileges |-> FALSE, single_transaction |-> FALSE,
     disable_triggers |-> FALSE, enable_row_security |-> FALSE,
     if_exists |-> FALSE, no_comments |-> FALSE,
     no_data_for_failed_tables |-> FALSE, no_publications |-> FALSE,
     no_security_labels |-> FALSE, no_subscriptions |-> FALSE,
     no_table_access_method |-> FALSE, no_tablespaces |-> FALSE,
     section |-> None, strict_names |-> FALSE,
     use_set_session_authorization |-> FALSE, host |-> None, port |-> None,
     username |-> None, no_password |-> FALSE, password |-> FALSE,
     role |-> None]

R_get_program == "pg_restore"

R_get_program_dir(b) == b.program_dir

\* A get_args whose --data-only and --schema-only blocks are exchanged.
R_get_args_schema_only_first(b) ==
    PushValue(b.dbname, "--dbname")
    \o PushValue(b.file, "--file")
    \o PushValue(b.format, "--format")
    \o PushFlag(b.list, "--list")
    \o PushFlag(b.verbose, "--verbose")
    \o PushFlag(b.version, "--version")
    \o PushFlag(b.help, "--help")
    \o PushFlag(b.schema_only, "--schema-only")
    \o PushFlag(b.clean, "--clean")
    \o PushFlag(b.create, "--create")
    \o PushFlag(b.exit_on_error, "--exit-on-error")
    \o PushValue(b.index, "--index")
    \o PushValue(b.jobs, "--jobs")
    \o PushValue(b.use_list, "--use-list")
    \o PushValue(b.schema, "--schema")
    \o PushValue(b.exclude_schema, "--exclude-schema")
    \o PushFlag(b.no_owner, "--no-owner")
    \o PushValue(b.function, "--function")
    \o PushFlag(b.data_only, "--data-only")
    \o PushValue(b.superuser, "--superuser")
    \o PushValue(b.table, "--table")
    \o PushValue(b.trigger, "--trigger")
    \o PushFlag(b.no_privileges, "--no-privileges")
    \o PushFlag(b.single_transaction, "--single-transaction")
    \o PushFlag(b.disable_triggers, "--disable-triggers")
    \o PushFlag(b.enable_row_security, "--enable-row-security")
    \o PushFlag(b.if_exists, "--if-exists")
    \o PushFlag(b.no_comments, "--no-comments")
    \o PushFlag(b.no_data_for_failed_tables, "--no-data-for-failed-tables")
    \o PushFlag(b.no_publications, "--no-publications")
    \o PushFlag(b.no_security_labels, "--no-security-labels")
    \o PushFlag(b.no_subscriptions, "--no-subscriptions")
    \o PushFlag(b.no_table_access_method, "--no-table-access-method")
    \o PushFlag(b.no_tablespaces, "--no-tablespaces")
    \o PushValue(b.section, "--section")
    \o PushFlag(b.strict_names, "--strict-names")
    \o PushFlag(b.use_set_session_authorization, "--use-set-session-authorization")
    \o PushValue(b.host, "--host")
    \o PushNumber(b.port, "--port")
    \o PushValue(b.username, "--username")
    \o PushFlag(b.no_password, "--no-password")
    \o PushFlag(b.password, "--password")
    \o PushValue(b.role, "--role")

\* A get_args that pushes --jobs without its value.
R_get_args_jobs_without_value(b) ==
    PushValue(b.dbname, "--dbname")
    \o PushValue(b.file, "--file")
    \o PushValue(b.format, "--format")
    \o PushFlag(b.list, "--list")
    \o PushFlag(b.verbose, "--verbose")
    \o PushFlag(b.version, "--version")
    \o PushFlag(b.help, "--help")
    \o PushFlag(b.data_only, "--data-only")
    \o PushFlag(b.clean, "--clean")
    \o PushFlag(b.create, "--create")
    \o PushFlag(b.exit_on_error, "--exit-on-error")
    \o PushValue(b.index, "--index")
    \o PushFlag(IsSome(b.jobs), "--jobs")
    \o PushValue(b.use_list, "--use-list")
    \o PushValue(b.schema, "--schema")
    \o PushValue(b.exclude_schema, "--exclude-schema")
    \o PushFlag(b.no_owner, "--no-owner")
    \o PushValue(b.function, "--function")
    \o PushFlag(b.schema_only, "--schema-only")
    \o PushValue(b.superuser, "--superuser")
    \o PushValue(b.table, "--table")
    \o PushValue(b.trigger, "--trigger")
    \o PushFlag(b.no_privileges, "--no-privileges")
    \o PushFlag(b.single_transaction, "--single-transaction")
    \o PushFlag(b.disable_triggers, "--disable-triggers")
    \o PushFlag(b.enable_row_security, "--enable-row-security")
    \o PushFlag(b.if_exists, "--if-exists")
    \o PushFlag(b.no_comments, "--no-comments")
    \o PushFlag(b.no_data_for_failed_tables, "--no-data-for-failed-tables")
    \o PushFlag(b.no_publications, "--no-publications")
    \o PushFlag(b.no_security_labels, "--no-security-labels")
    \o PushFlag(b.no_subscriptions, "--no-subscriptions")
    \o PushFlag(b.no_table_access_method, "--no-table-access-method")
    \o PushFlag(b.no_tablespaces, "--no-tablespaces")
    \o PushValue(b.section, "--section")
    \o PushFlag(b.strict_names, "--strict-names")
    \o PushFlag(b.use_set_session_authorization, "--use-set-session-authorization")
    \o PushValue(b.host, "--host")
    \o PushNumber(b.port, "--port")
    \o PushValue(b.username, "--username")
    \o PushFlag(b.no_password, "--no-password")
    \o PushFlag(b.password, "--password")
    \o PushValue(b.role, "--role")

\* A get_args whose no_owner block pushes the token of no_privileges.
R_get_args_no_owner_token_copied(b) ==
    PushValue(b.dbname, "--dbname")
    \o PushValue(b.file, "--file")
    \o PushValue(b.format, "--format")
    \o PushFlag(b.list, "--list")
    \o PushFlag(b.verbose, "--verbose")
    \o PushFlag(b.version, "--version")
    \o PushFlag(b.help, "--help")
    \o PushFlag(b.data_only, "--data-only")
    \o PushFlag(b.clean, "--clean")
    \o PushFlag(b.create, "--create")
    \o PushFlag(b.exit_on_error, "--exit-on-error")
    \o PushValue(b.index, "--index")
    \o PushValue(b.jobs, "--jobs")
    \o PushValue(b.use_list, "--use-list")
    \o PushValue(b.schema, "--schema")
    \o PushValue(b.exclude_schema, "--exclude-schema")
    \o PushFlag(b.no_owner, "--no-privileges")
    \o PushValue(b.function, "--function")
    \o PushFlag(b.schema_only, "--schema-only")
    \o PushValue(b.superuser, "--superuser")
    \o PushValue(b.table, "--table")
    \o PushValue(b.trigger, "--trigger")
    \o PushFlag(b.no_privileges, "--no-privileges")
    \o PushFlag(b.single_transaction, "--single-transaction")
    \o PushFlag(b.disable_triggers, "--disable-triggers")
    \o PushFlag(b.enable_row_security, "--enable-row-security")
    \o PushFlag(b.if_exists, "--if-exists")
    \o PushFlag(b.no_comments, "--no-comments")
    \o PushFlag(b.no_data_for_failed_tables, "--no-data-for-failed-tables")
    \o PushFlag(b.no_publications, "--no-publications")
    \o PushFlag(b.no_security_labels, "--no-security-labels")
    \o PushFlag(b.no_subscriptions, "--no-subscriptions")
    \o PushFlag(b.no_table_access_method, "--no-table-access-method")
    \o PushFlag(b.no_tablespaces, "--no-tablespaces")
    \o PushValue(b.section, "--section")
    \o PushFlag(b.strict_names, "--strict-names")
    \o PushFlag(b.use_set_session_authorization, "--use-set-session-authorization")
    \o PushValue(b.host, "--host")
    \o PushNumber(b.port, "--port")
    \o PushValue(b.username, "--username")
    \o PushFlag(b.no_password, "--no-password")
    \o PushFlag(b.password, "--password")
    \o PushValue(b.role, "--role")

R_get_args(b) ==
    PushValue(b.dbname, "--dbname")
    \o PushValue(b.file, "--file")
    \o PushValue(b.format, "--format")
    \o PushFlag(b.list, "--list")
    \o PushFlag(b.verbose, "--verbose")
    \o PushFlag(b.version, "--version")
    \o PushFlag(b.help, "--help")
    \o PushFlag(b.data_only, "--data-only")
    \o PushFlag(b.clean, "--clean")
    \o PushFlag(b.create, "--create")
    \o PushFlag(b.exit_on_error, "--exit-on-error")
    \o PushValue(b.index, "--index")
    \o PushValue(b.jobs, "--jobs")
    \o PushValue(b.use_list, "--use-list")
    \o PushValue(b.schema, "--schema")
    \o PushValue(b.exclude_schema, "--exclude-schema")
    \o PushFlag(b.no_owner, "--no-owner")
    \o PushValue(b.function, "--function")
    \o PushFlag(b.schema_only, "--schema-only")
    \o PushValue(b.superuser, "--superuser")
    \o PushValue(b.table, "--table")
    \o PushValue(b.trigger, "--trigger")
    \o PushFlag(b.no_privileges, "--no-privileges")
    \o PushFlag(b.single_transaction, "--single-transaction")
    \o PushFlag(b.disable_triggers, "--disable-triggers")
    \o PushFlag(b.enable_row_security, "--enable-row-security")
    \o PushFlag(b.if_exists, "--if-exists")
    \o PushFlag(b.no_comments, "--no-comments")
    \o PushFlag(b.no_data_for_failed_tables, "--no-data-for-failed-tables")
    \o PushFlag(b.no_publications, "--no-publications")
    \o PushFlag(b.no_security_labels, "--no-security-labels")
    \o PushFlag(b.no_subscriptions, "--no-subscriptions")
    \o PushFlag(b.no_table_access_method, "--no-table-access-method")
    \o PushFlag(b.no_tablespaces, "--no-tablespaces")
    \o PushValue(b.section, "--section")
    \o PushFlag(b.strict_names, "--strict-names")
    \o PushFlag(b.use_set_session_authorization, "--use-set-session-authorization")
    \o PushValue(b.host, "--host")
    \o PushNumber(b.port, "--port")
    \o PushValue(b.username, "--username")
    \o PushFlag(b.no_password, "--no-password")
    \o PushFlag(b.password, "--password")
    \o PushValue(b.role, "--role")

\* PgRestoreBuilder implements no get_envs and has no field that holds a
\* password: the command it builds carries no environment override (both
\* tests render it without any NAME="value" prefix).
R_get_envs(b) == <<>>

\* The call chain of tests::test_builder, in its order.
RChain ==
    <<[field |-> "program_dir", arg |-> "/usr/bin"],
      [field |-> "dbname", arg |-> "test"],
      [field |-> "file", arg |-> "test"],
      [field |-> "format", arg |-> "test"], [field |-> "list", arg |-> TRUE],
      [field |-> "verbose", arg |-> TRUE],
      [field |-> "version", arg |-> TRUE], [field |-> "help", arg |-> TRUE],
      [field |-> "data_only", arg |-> TRUE],
      [field |-> "clean", arg |-> TRUE], [field |-> "create", arg |-> TRUE],
      [field |-> "exit_on_error", arg |-> TRUE],
      [field |-> "index", arg |-> "test"],
      [field |-> "jobs", arg |-> "test"],
      [field |-> "use_list", arg |-> "test"],
      [field |-> "schema", arg |-> "test"],
      [field |-> "exclude_schema", arg |-> "test"],
      [field |-> "no_owner", arg |-> TRUE],
      [field |-> "function", arg |-> "test"],
      [field |-> "schema_only", arg |-> TRUE],
      [field |-> "superuser", arg |-> "test"],
      [field |-> "table", arg |-> "test"],
      [field |-> "trigger", arg |-> "test"],
      [field |-> "no_privileges", arg |-> TRUE],
      [field |-> "single_transaction", arg |-> TRUE],
      [field |-> "disable_triggers", arg |-> TRUE],
      [field |-> "enable_row_security", arg |-> TRUE],
      [field |-> "if_exists", arg |-> TRUE],
      [field |-> "no_comments", arg |-> TRUE],
      [field |-> "no_data_for_failed_tables", arg |-> TRUE],
      [field |-> "no_publications", arg |-> TRUE],
      [field |-> "no_security_labels", arg |-> TRUE],
      [field |-> "no_subscriptions", arg |-> TRUE],
      [field |-> "no_table_access_method", arg |-> TRUE],
      [field |-> "no_tablespaces", arg |-> TRUE],
      [field |-> "section", arg |-> "test"],
      [field |-> "strict_names", arg |-> TRUE],
      [field |-> "use_set_session_authorization", arg |-> TRUE],
      [field |-> "host", arg |-> "localhost"],
      [field |-> "port", arg |-> 5432],
      [field |-> "username", arg |-> "test"],
      [field |-> "no_password", arg |-> TRUE],
      [field |-> "password", arg |-> TRUE],
      [field |-> "role", arg |-> "test"]>>

\* One setter call on the PgRestoreBuilder.  The calls explored are those of
\* the tests::test_builder chain, in its order, with up to MaxExtraCalls
\* further calls of any setter, with any argument, at any point of it.
RCall(field, arg, after) ==
    /\ kind = "pg_restore"
    /\ LET chained == /\ rchain < Len(RChain)
                      /\ RChain[rchain + 1].field = field
                      /\ RChain[rchain + 1].arg = arg
       IN  /\ chained \/ rextra < MaxExtraCalls
           /\ rchain' = IF chained THEN rchain + 1 ELSE rchain
           /\ rextra' = IF chained THEN rextra ELSE rextra + 1
    /\ rb' = after
    /\ rlog' = [rlog EXCEPT ![field] = Some(arg)]
    /\ UNCHANGED <<kind, vvars>>

R_program_dir ==
    \E path \in ProgramDirs :
        RCall("program_dir", path, [rb EXCEPT !.program_dir = Some(path)])

R_dbname ==
    \E name \in RNames :
        RCall("dbname", name, [rb EXCEPT !.dbname = Some(name)])

R_file ==
    \E filename \in RNames :
        RCall("file", filename, [rb EXCEPT !.file = Some(filename)])

R_format ==
    \E format \in RNames :
        RCall("format", format, [rb EXCEPT !.format = Some(format)])

R_list == RCall("list", TRUE, [rb EXCEPT !.list = TRUE])

R_verbose == RCall("verbose", TRUE, [rb EXCEPT !.verbose = TRUE])

R_version == RCall("version", TRUE, [rb EXCEPT !.version = TRUE])

R_help == RCall("help", TRUE, [rb EXCEPT !.help = TRUE])

R_data_only == RCall("data_only", TRUE, [rb EXCEPT !.data_only = TRUE])

R_clean == RCall("clean", TRUE, [rb EXCEPT !.clean = TRUE])

R_create == RCall("create", TRUE, [rb EXCEPT !.create = TRUE])

R_exit_on_error == RCall("exit_on_error", TRUE, [rb EXCEPT !.exit_on_error = TRUE])

R_index ==
    \E name \in RNames :
        RCall("index", name, [rb EXCEPT !.index = Some(name)])

R_jobs ==
    \E num \in RNames :
        RCall("jobs", num, [rb EXCEPT !.jobs = Some(num)])

R_use_list ==
    \E filename \in RNames :
        RCall("use_list", filename, [rb EXCEPT !.use_list = Some(filename)])

R_schema ==
    \E name \in RNames :
        RCall("schema", name, [rb EXCEPT !.schema = Some(name)])

R_exclude_schema ==
    \E name \in RNames :
        RCall("exclude_schema", name, [rb EXCEPT !.exclude_schema = Some(name)])

R_no_owner == RCall("no_owner", TRUE, [rb EXCEPT !.no_owner = TRUE])

R_function ==
    \E name \in RNames :
        RCall("function", name, [rb EXCEPT !.function = Some(name)])

\* A schema_only that treats data_only as its opposite and withdraws it.
R_schema_only_clears_data_only ==
    RCall("schema_only", TRUE, [rb EXCEPT !.schema_only = TRUE, !.data_only = FALSE])

R_schema_only == RCall("schema_only", TRUE, [rb EXCEPT !.schema_only = TRUE])

R_superuser ==
    \E name \in RNames :
        RCall("superuser", name, [rb EXCEPT !.superuser = Some(name)])

R_table ==
    \E name \in RNames :
        RCall("table", name, [rb EXCEPT !.table = Some(name)])

R_trigger ==
    \E name \in RNames :
        RCall("trigger", name, [rb EXCEPT !.trigger = Some(name)])

R_no_privileges == RCall("no_privileges", TRUE, [rb EXCEPT !.no_privileges = TRUE])

R_single_transaction == RCall("single_transaction", TRUE, [rb EXCEPT !.single_transaction = TRUE])

R_disable_triggers == RCall("disable_triggers", TRUE, [rb EXCEPT !.disable_triggers = TRUE])

R_enable_row_security == RCall("enable_row_security", TRUE, [rb EXCEPT !.enable_row_security = TRUE])

R_if_exists == RCall("if_exists", TRUE, [rb EXCEPT !.if_exists = TRUE])

R_no_comments == RCall("no_comments", TRUE, [rb EXCEPT !.no_comments = TRUE])

R_no_data_for_failed_tables == RCall("no_data_for_failed_tables", TRUE, [rb EXCEPT !.no_data_for_failed_tables = TRUE])

R_no_publications == RCall("no_publications", TRUE, [rb EXCEPT !.no_publications = TRUE])

R_no_security_labels == RCall("no_security_labels", TRUE, [rb EXCEPT !.no_security_labels = TRUE])

R_no_subscriptions == RCall("no_subscriptions", TRUE, [rb EXCEPT !.no_subscriptions = TRUE])

R_no_table_access_method == RCall("no_table_access_method", TRUE, [rb EXCEPT !.no_table_access_method = TRUE])

R_no_tablespaces == RCall("no_tablespaces", TRUE, [rb EXCEPT !.no_tablespaces = TRUE])

R_section ==
    \E section \in RNames :
        RCall("section", section, [rb EXCEPT !.section = Some(section)])

R_strict_names == RCall("strict_names", TRUE, [rb EXCEPT !.strict_names = TRUE])

R_use_set_session_authorization == RCall("use_set_session_authorization", TRUE, [rb EXCEPT !.use_set_session_authorization = TRUE])

R_host ==
    \E hostname \in RNames :
        RCall("host", hostname, [rb EXCEPT !.host = Some(hostname)])

R_port ==
    \E port \in Ports :
        RCall("port", port, [rb EXCEPT !.port = Some(port)])

R_username ==
    \E name \in RNames :
        RCall("username", name, [rb EXCEPT !.username = Some(name)])

R_no_password == RCall("no_password", TRUE, [rb EXCEPT !.no_password = TRUE])

R_password == RCall("password", TRUE, [rb EXCEPT !.password = TRUE])

R_role ==
    \E rolename \in RNames :
        RCall("role", rolename, [rb EXCEPT !.role = Some(rolename)])

RNext ==
    \/ R_program_dir
    \/ R_dbname
    \/ R_file
    \/ R_format
    \/ R_list
    \/ R_verbose
    \/ R_version
    \/ R_help
    \/ R_data_only
    \/ R_clean
    \/ R_create
    \/ R_exit_on_error
    \/ R_index
    \/ R_jobs
    \/ R_use_list
    \/ R_schema
    \/ R_exclude_schema
    \/ R_no_owner
    \/ R_function
    \/ R_schema_only
    \/ R_superuser
    \/ R_table
    \/ R_trigger
    \/ R_no_privileges
    \/ R_single_transaction
    \/ R_disable_triggers
    \/ R_enable_row_security
    \/ R_if_exists
    \/ R_no_comments
    \/ R_no_data_for_failed_tables
    \/ R_no_publications
    \/ R_no_security_labels
    \/ R_no_subscriptions
    \/ R_no_table_access_method
    \/ R_no_tablespaces
    \/ R_section
    \/ R_strict_names
    \/ R_use_set_session_authorization
    \/ R_host
    \/ R_port
    \/ R_username
    \/ R_no_password
    \/ R_password
    \/ R_role

-----------------------------------------------------------------------------
(* The life of one builder: constructed by new(), then any setter calls.   *)
(* VacuumLoBuilder::from is the other constructor: V_from, taken first.    *)

Init ==
    /\ kind \in {"vacuumlo", "pg_restore"}
    /\ vb = V_new
    /\ vctor = None
    /\ vlog = [f \in VFields |-> None]
    /\ rb = R_new
    /\ rlog = [f \in RFields |-> None]
    /\ rchain = 0
    /\ rextra = 0

Next == VNext \/ RNext

Spec == Init /\ [][Next]_vars

-----------------------------------------------------------------------------
(* What the claims speak of: the builder followed, whichever its type.     *)

Args == IF kind = "vacuumlo" THEN V_get_args(vb) ELSE R_get_args(rb)

Envs == IF kind = "vacuumlo" THEN V_get_envs(vb) ELSE R_get_envs(rb)

Program == IF kind = "vacuumlo" THEN V_get_program ELSE R_get_program

ProgramDir ==
    IF kind = "vacuumlo" THEN V_get_program_dir(vb) ELSE R_get_program_dir(rb)

\* PathBuf::join of a directory without trailing separator and a file name.
PathJoin(dir, name) == dir \o "/" \o name

\* CommandBuilder::build: the program path is the program directory joined
\* with the program name, or the bare name when there is no directory; the
\* arguments and the environment overrides are those of get_args / get_envs.
build(program, program_dir, args, envs) ==
    [program |-> IF IsSome(program_dir) THEN PathJoin(program_dir[1], program)
                 ELSE program,
     args |-> args,
     envs |-> envs]

\* The command the builder followed would be finalized to.
Command == build(Program, ProgramDir, Args, Envs)

Log == IF kind = "vacuumlo" THEN vlog ELSE rlog

Fields == IF kind = "vacuumlo" THEN VFields ELSE RFields

\* The decimal strings of the numbers the setters are called with, written out.
Decimal(n) ==
    CASE n = 0 -> "0" [] n = 100 -> "100" [] n = 5432 -> "5432"
      [] n = 65535 -> "65535"

\* The emission order the specification states for the vacuum builder.
VOrder ==
    <<[field |-> "limit", tok |-> "--limit", shape |-> "number"],
      [field |-> "dry_run", tok |-> "--dry-run", shape |-> "flag"],
      [field |-> "verbose", tok |-> "--verbose", shape |-> "flag"],
      [field |-> "version", tok |-> "--version", shape |-> "flag"],
      [field |-> "help", tok |-> "--help", shape |-> "flag"],
      [field |-> "host", tok |-> "--host", shape |-> "value"],
      [field |-> "port", tok |-> "--port", shape |-> "number"],
      [field |-> "username", tok |-> "--username", shape |-> "value"],
      [field |-> "no_password", tok |-> "--no-password", shape |-> "flag"],
      [field |-> "password", tok |-> "--password", shape |-> "flag"]>>

\* The emission order the specification states for the restore builder.
ROrder ==
    <<[field |-> "dbname", tok |-> "--dbname", shape |-> "value"],
      [field |-> "file", tok |-> "--file", shape |-> "value"],
      [field |-> "format", tok |-> "--format", shape |-> "value"],
      [field |-> "list", tok |-> "--list", shape |-> "flag"],
      [field |-> "verbose", tok |-> "--verbose", shape |-> "flag"],
      [field |-> "version", tok |-> "--version", shape |-> "flag"],
      [field |-> "help", tok |-> "--help", shape |-> "flag"],
      [field |-> "data_only", tok |-> "--data-only", shape |-> "flag"],
      [field |-> "clean", tok |-> "--clean", shape |-> "flag"],
      [field |-> "create", tok |-> "--create", shape |-> "flag"],
      [field |-> "exit_on_error", tok |-> "--exit-on-error", shape |-> "flag"],
      [field |-> "index", tok |-> "--index", shape |-> "value"],
      [field |-> "jobs", tok |-> "--jobs", shape |-> "value"],
      [field |-> "use_list", tok |-> "--use-list", shape |-> "value"],
      [field |-> "schema", tok |-> "--schema", shape |-> "value"],
      [field |-> "exclude_schema", tok |-> "--exclude-schema", shape |-> "value"],
      [field |-> "no_owner", tok |-> "--no-owner", shape |-> "flag"],
      [field |-> "function", tok |-> "--function", shape |-> "value"],
      [field |-> "schema_only", tok |-> "--schema-only", shape |-> "flag"],
      [field |-> "superuser", tok |-> "--superuser", shape |-> "value"],
      [field |-> "table", tok |-> "--table", shape |-> "value"],
      [field |-> "trigger", tok |-> "--trigger", shape |-> "value"],
      [field |-> "no_privileges", tok |-> "--no-privileges", shape |-> "flag"],
      [field |-> "single_transaction", tok |-> "--single-transaction", shape |-> "flag"],
      [field |-> "disable_triggers", tok |-> "--disable-triggers", shape |-> "flag"],
      [field |-> "enable_row_security", tok |-> "--enable-row-security", shape |-> "flag"],
      [field |-> "if_exists", tok |-> "--if-exists", shape |-> "flag"],
      [field |-> "no_comments", tok |-> "--no-comments", shape |-> "flag"],
      [field |-> "no_data_for_failed_tables", tok |-> "--no-data-for-failed-tables", shape |-> "flag"],
      [field |-> "no_publications", tok |-> "--no-publications", shape |-> "flag"],
      [field |-> "no_security_labels", tok |-> "--no-security-labels", shape |-> "flag"],
      [field |-> "no_subscriptions", tok |-> "--no-subscriptions", shape |-> "flag"],
      [field |-> "no_table_access_method", tok |-> "--no-table-access-method", shape |-> "flag"],
      [field |-> "no_tablespaces", tok |-> "--no-tablespaces", shape |-> "flag"],
      [field |-> "section", tok |-> "--section", shape |-> "value"],
      [field |-> "strict_names", tok |-> "--strict-names", shape |-> "flag"],
      [field |-> "use_set_session_authorization", tok |-> "--use-set-session-authorization", shape |-> "flag"],
      [field |-> "host", tok |-> "--host", shape |-> "value"],
      [field |-> "port", tok |-> "--port", shape |-> "number"],
      [field |-> "username", tok |-> "--username", shape |-> "value"],
      [field |-> "no_password", tok |-> "--no-password", shape |-> "flag"],
      [field |-> "password", tok |-> "--password", shape |-> "flag"],
      [field |-> "role", tok |-> "--role", shape |-> "value"]>>

Order == IF kind = "vacuumlo" THEN VOrder ELSE ROrder

\* The tokens the specification gives entry e, for the setter calls logged.
Contribution(e, log) ==
    IF ~IsSome(log[e.field]) THEN <<>>
    ELSE CASE e.shape = "flag" -> <<e.tok>>
           [] e.shape = "value" -> <<e.tok, log[e.field][1]>>
           [] e.shape = "number" -> <<e.tok, Decimal(log[e.field][1])>>

\* The tokens of the first n entries of order, in order.
RECURSIVE Expected(_, _, _)
Expected(order, log, n) ==
    IF n = 0 THEN <<>>
    ELSE Expected(order, log, n - 1) \o Contribution(order[n], log)

\* Where entry i's flag name stands in the argument list, if it is emitted.
Posn(order, log, i) == 1 + Len(Expected(order, log, i - 1))

ValueToks(order) == {order[i].tok : i \in {j \in DOMAIN order : order[j].shape # "flag"}}

\* The flag positions of an argument list a read from the left, from position
\* i on: every position but the one that follows a value-flag's name.
RECURSIVE FlagPositionsFrom(_, _, _)
FlagPositionsFrom(a, valueToks, i) ==
    IF i > Len(a) THEN {}
    ELSE {i} \cup FlagPositionsFrom(a, valueToks,
                                    IF a[i] \in valueToks THEN i + 2 ELSE i + 1)

FlagPositions(args, valueToks) ==
    UNION {FlagPositionsFrom(a, valueToks, 1) : a \in {args}}

VValueToks == ValueToks(VOrder)

RValueToks == ValueToks(ROrder)

OrderValueToks == IF kind = "vacuumlo" THEN VValueToks ELSE RValueToks

FlagTokens(args, valueToks) ==
    UNION { {a[p] : p \in FlagPositions(a, valueToks)} : a \in {args} }

Range(s) == {s[i] : i \in DOMAIN s}

Count(tok, args) == Cardinality({p \in DOMAIN args : args[p] = tok})

NothingCalled == \A f \in Fields : ~IsSome(Log[f])

-----------------------------------------------------------------------------
(* C1 *)

\* C1 (as stated): on the vacuum builder the configured password is never a
\* token of get_args(), and get_envs() is exactly <<("PGPASSWORD", p)>> when
\* pg_password(p) was called and empty when it never was.
C1_PasswordNeverAToken ==
    kind = "vacuumlo" =>
        /\ IsSome(vlog["pg_password"]) =>
               /\ vlog["pg_password"][1] \notin Range(V_get_args(vb))
               /\ V_get_envs(vb) = << <<"PGPASSWORD", vlog["pg_password"][1]>> >>
        /\ ~IsSome(vlog["pg_password"]) => V_get_envs(vb) = <<>>

\* C1 (amended): get_envs() is exactly <<("PGPASSWORD", p)>> when
\* pg_password(p) was called last and empty when it never was, and get_args()
\* does not depend on the password: the builder with any password, or none,
\* in place of its own yields the same argument list.  So the password is a
\* token of get_args() only when the same string is emitted for another field.
C1_PasswordOnlyInEnvironment ==
    kind = "vacuumlo" =>
        /\ V_get_envs(vb) =
               IF IsSome(vlog["pg_password"])
               THEN << <<"PGPASSWORD", vlog["pg_password"][1]>> >>
               ELSE <<>>
        /\ \A q \in Passwords :
               /\ V_get_args([vb EXCEPT !.pg_password = Some(q)]) = V_get_args(vb)
               /\ V_get_args([vb EXCEPT !.pg_password = None]) = V_get_args(vb)
        /\ V_get_args(vb) = Expected(VOrder, [vlog EXCEPT !["pg_password"] = None], Len(VOrder))

C1_Witness ==
    /\ kind = "vacuumlo"
    /\ IsSome(vlog["pg_password"])
    /\ vlog["pg_password"][1] = "password"
    /\ IsSome(vlog["username"])
    /\ IsSome(vlog["password"])
    /\ V_get_envs(vb) = << <<"PGPASSWORD", "password">> >>
    /\ "password" \notin Range(V_get_args(vb))

-----------------------------------------------------------------------------
(* C2 *)

-----------------------------------------------------------------------------
(* C3 *)

\* C3: whatever setters of the vacuum builder were called, in whatever order,
\* get_args() is the specification's fixed order restricted to the fields
\* set, each with the last value its setter was given.
C3_VacuumArgsInFixedOrder ==
    kind = "vacuumlo" => V_get_args(vb) = Expected(VOrder, vlog, Len(VOrder))

C3_Witness ==
    /\ kind = "vacuumlo"
    /\ \A i \in DOMAIN VOrder : IsSome(vlog[VOrder[i].field])
    /\ ~IsSome(vlog["pg_password"])
    /\ Len(V_get_args(vb)) = 14

-----------------------------------------------------------------------------
(* C4 *)

\* C4: whatever setters of the restore builder were called, in whatever
\* order, get_args() is the declared order dbname .. role restricted to the
\* fields set, each value-flag immediately followed by its last value.
C4_RestoreArgsInDeclaredOrder ==
    kind = "pg_restore" => R_get_args(rb) = Expected(ROrder, rlog, Len(ROrder))

C4_Witness ==
    /\ kind = "pg_restore"
    /\ \A i \in DOMAIN ROrder : IsSome(rlog[ROrder[i].field])
    /\ rextra > 0
    /\ rlog["dbname"][1] = "localhost"
    /\ R_get_args(rb)[2] = "localhost"
    /\ Len(R_get_args(rb)) = 60

-----------------------------------------------------------------------------
(* C5 *)

\* C5: a builder on which no configuration method was called has an empty
\* argument list, no environment override and no program directory; its
\* program is the fixed name.
C5_DefaultBuilderIsBare ==
    NothingCalled =>
        /\ Args = <<>>
        /\ Envs = <<>>
        /\ ProgramDir = None
        /\ Program = IF kind = "vacuumlo" THEN "vacuumlo" ELSE "pg_restore"

C5_Witness == kind = "pg_restore" /\ NothingCalled /\ rchain = 0 /\ Args = <<>>

-----------------------------------------------------------------------------
(* C6 *)

\* C6 (as stated): a presence-flag's token occurs exactly once in get_args(),
\* at its fixed position, when its setter was called, and never otherwise.
C6_FlagTokenOccursOnce ==
    \A i \in DOMAIN Order :
        Order[i].shape = "flag" =>
            IF IsSome(Log[Order[i].field])
            THEN /\ Count(Order[i].tok, Args) = 1
                 /\ Posn(Order, Log, i) \in DOMAIN Args
                 /\ Args[Posn(Order, Log, i)] = Order[i].tok
            ELSE Count(Order[i].tok, Args) = 0

\* C6 (amended): among the flag positions of get_args() (every position but
\* the one holding a value-flag's value) a presence-flag's token occurs
\* exactly once, at its fixed position, when its setter was called, and never
\* otherwise.
C6_FlagTokenOnceAmongFlags ==
    \A a \in {Args} : \A flagPositions \in {FlagPositions(a, OrderValueToks)} :
        \A i \in DOMAIN Order :
            Order[i].shape = "flag" =>
                LET occ == {p \in flagPositions : a[p] = Order[i].tok}
                IN  IF IsSome(Log[Order[i].field])
                    THEN occ = {Posn(Order, Log, i)}
                    ELSE occ = {}

C6_Witness ==
    /\ kind = "vacuumlo"
    /\ IsSome(vlog["host"])
    /\ vlog["host"][1] = "--verbose"
    /\ IsSome(vlog["verbose"])
    /\ IsSome(vlog["limit"])
    /\ ~IsSome(vlog["dry_run"])
    /\ Count("--verbose", Args) = 2
    /\ Args[3] = "--verbose"

-----------------------------------------------------------------------------
(* C7 *)

\* C7: a set value-flag stands in get_args() as its name immediately followed
\* by its value (a limit or port as its decimal string), at its fixed
\* position; the length of get_args() is twice the number of set value-flags
\* plus the number of set presence-flags.
C7_ValueFlagIsTwoTokens ==
    /\ \A i \in DOMAIN Order :
           (Order[i].shape # "flag" /\ IsSome(Log[Order[i].field])) =>
               LET p == Posn(Order, Log, i)
               IN  /\ p + 1 \in DOMAIN Args
                   /\ Args[p] = Order[i].tok
                   /\ Args[p + 1] = IF Order[i].shape = "number"
                                    THEN Decimal(Log[Order[i].field][1])
                                    ELSE Log[Order[i].field][1]
    /\ Len(Args) =
           2 * Cardinality({i \in DOMAIN Order :
                   Order[i].shape # "flag" /\ IsSome(Log[Order[i].field])})
           + Cardinality({i \in DOMAIN Order :
                   Order[i].shape = "flag" /\ IsSome(Log[Order[i].field])})

C7_Witness ==
    /\ kind = "vacuumlo"
    /\ IsSome(vlog["limit"]) /\ vlog["limit"][1] = 100
    /\ IsSome(vlog["port"]) /\ vlog["port"][1] = 65535
    /\ ~IsSome(vlog["host"])
    /\ IsSome(vlog["help"])
    /\ Args = <<"--limit", "100", "--help", "--port", "65535">>

-----------------------------------------------------------------------------
(* C9 *)

BoolFields(order) ==
    {order[i].field : i \in {j \in DOMAIN order : order[j].shape = "flag"}}

VBoolFields == BoolFields(VOrder)

RBoolFields == BoolFields(ROrder)

FieldSet(b, f, bools) == IF f \in bools THEN b[f] ELSE IsSome(b[f])

\* C9: no step unsets a field: a presence-flag that is true stays true, an
\* optional field that is present stays present, and the flags get_args()
\* emits only grow.
C9_NoFieldIsUnset ==
    [][ IF kind = "vacuumlo"
        THEN /\ \A f \in VFields : FieldSet(vb, f, VBoolFields) => FieldSet(vb', f, VBoolFields)
             /\ FlagTokens(V_get_args(vb), VValueToks)
                    \subseteq FlagTokens(V_get_args(vb'), VValueToks)
        ELSE /\ \A f \in RFields : FieldSet(rb, f, RBoolFields) => FieldSet(rb', f, RBoolFields)
             /\ FlagTokens(R_get_args(rb), RValueToks)
                    \subseteq FlagTokens(R_get_args(rb'), RValueToks)
      ]_vars

C9_Witness ==
    /\ kind = "vacuumlo"
    /\ vb.password /\ vb.no_password
    /\ IsSome(vb.host) /\ vb.host[1] = "localhost"
    /\ IsSome(vb.pg_password)
    /\ IsSome(vb.program_dir)
    /\ vctor = None

-----------------------------------------------------------------------------
(* C10 *)

\* C10: the step VacuumLoBuilder::from(settings) leaves a builder whose
\* program directory, host, port, user name and password are the settings'
\* and whose other fields are absent / false; it emits exactly the PGPASSWORD
\* override and --host <h> --port <p> --username <u>.
C10_FromSettings ==
    [][ (vctor = None /\ vctor' # None) =>
            LET s == vctor'[1]
            IN  /\ vb'.program_dir = Some(s.binary_dir)
                /\ vb'.host = Some(s.host)
                /\ vb'.port = Some(s.port)
                /\ vb'.username = Some(s.username)
                /\ vb'.pg_password = Some(s.password)
                /\ vb'.limit = None
                /\ ~vb'.dry_run /\ ~vb'.verbose /\ ~vb'.version /\ ~vb'.help
                /\ ~vb'.no_password /\ ~vb'.password
                /\ V_get_envs(vb') = << <<"PGPASSWORD", s.password>> >>
                /\ V_get_args(vb') =
                       <<"--host", s.host, "--port", Decimal(s.port),
                         "--username", s.username>>
      ]_vars

C10_Witness ==
    /\ kind = "vacuumlo"
    /\ vctor # None
    /\ vb.limit = None
    /\ V_get_program_dir(vb) = Some(".")
    /\ V_get_envs(vb) = << <<"PGPASSWORD", "password">> >>
    /\ V_get_args(vb) =
           <<"--host", "localhost", "--port", "5432", "--username", "postgres">>

-----------------------------------------------------------------------------
(* C11 *)

FixedName == IF kind = "vacuumlo" THEN "vacuumlo" ELSE "pg_restore"

OnlyProgramDirCalled ==
    /\ IsSome(Log["program_dir"])
    /\ \A f \in Fields \ {"program_dir"} : ~IsSome(Log[f])

\* C11: the executable path of the finalized command is the program directory
\* last configured joined with the fixed program name, and the bare name
\* when none was configured; after program_dir alone the command has no
\* argument and no environment override; no configuration call changes the
\* program name.
C11_ExecutablePath ==
    /\ Program = FixedName
    /\ Command.program =
           IF IsSome(Log["program_dir"])
           THEN Log["program_dir"][1] \o "/" \o FixedName
           ELSE FixedName
    /\ OnlyProgramDirCalled => (Command.args = <<>> /\ Command.envs = <<>>)

C11_Witness ==
    /\ kind = "vacuumlo"
    /\ OnlyProgramDirCalled
    /\ vlog["program_dir"][1] = "."
    /\ Command = [program |-> "./vacuumlo", args |-> <<>>, envs |-> <<>>]

-----------------------------------------------------------------------------
(* C12 *)

\* Every setter of the vacuum builder can be called.
VEverySetterEnabled ==
    /\ ENABLED V_program_dir
    /\ ENABLED V_limit
    /\ ENABLED V_dry_run
    /\ ENABLED V_verbose
    /\ ENABLED V_version
    /\ ENABLED V_help
    /\ ENABLED V_host
    /\ ENABLED V_port
    /\ ENABLED V_username
    /\ ENABLED V_no_password
    /\ ENABLED V_password
    /\ ENABLED V_pg_password

\* Every setter of the restore builder can be called.
REverySetterEnabled ==
    /\ ENABLED R_program_dir
    /\ ENABLED R_dbname
    /\ ENABLED R_file
    /\ ENABLED R_format
    /\ ENABLED R_list
    /\ ENABLED R_verbose
    /\ ENABLED R_version
    /\ ENABLED R_help
    /\ ENABLED R_data_only
    /\ ENABLED R_clean
    /\ ENABLED R_create
    /\ ENABLED R_exit_on_error
    /\ ENABLED R_index
    /\ ENABLED R_jobs
    /\ ENABLED R_use_list
    /\ ENABLED R_schema
    /\ ENABLED R_exclude_schema
    /\ ENABLED R_no_owner
    /\ ENABLED R_function
    /\ ENABLED R_schema_only
    /\ ENABLED R_superuser
    /\ ENABLED R_table
    /\ ENABLED R_trigger
    /\ ENABLED R_no_privileges
    /\ ENABLED R_single_transaction
    /\ ENABLED R_disable_triggers
    /\ ENABLED R_enable_row_security
    /\ ENABLED R_if_exists
    /\ ENABLED R_no_comments
    /\ ENABLED R_no_data_for_failed_tables
    /\ ENABLED R_no_publications
    /\ ENABLED R_no_security_labels
    /\ ENABLED R_no_subscriptions
    /\ ENABLED R_no_table_access_method
    /\ ENABLED R_no_tablespaces
    /\ ENABLED R_section
    /\ ENABLED R_strict_names
    /\ ENABLED R_use_set_session_authorization
    /\ ENABLED R_host
    /\ ENABLED R_port
    /\ ENABLED R_username
    /\ ENABLED R_no_password
    /\ ENABLED R_password
    /\ ENABLED R_role

\* The fields of a builder that differ between two of its values.
Changed(before, after, fields) == {f \in fields : before[f] # after[f]}

\* C12, in every state: every configuration call is possible (for the restore
\* builder: while the calls explored are not used up); a flag's token stands
\* at a flag position of get_args() exactly when that flag's own setter was
\* called, whatever else was; with no_password and password both called both
\* tokens are emitted, and so are --data-only and --schema-only.
C12_NoValidationState ==
    /\ kind = "vacuumlo" => VEverySetterEnabled
    /\ (kind = "pg_restore" /\ rextra < MaxExtraCalls) => REverySetterEnabled
    /\ \A a \in {Args} : \A flagTokens \in {FlagTokens(a, OrderValueToks)} :
           /\ \A i \in DOMAIN Order :
                  Order[i].tok \in flagTokens <=> IsSome(Log[Order[i].field])
           /\ (IsSome(Log["no_password"]) /\ IsSome(Log["password"])) =>
                  \E p \in DOMAIN a :
                      /\ p + 1 \in DOMAIN a
                      /\ a[p] = "--no-password"
                      /\ a[p + 1] = "--password"
           /\ (kind = "pg_restore" /\ IsSome(rlog["data_only"])
                   /\ IsSome(rlog["schema_only"])) =>
                  {"--data-only", "--schema-only"} \subseteq flagTokens

\* C12, in every step of a setter: the fields of the builder that change are
\* fields whose setter was called in the step, and that is one setter.
C12_NoValidationStep ==
    IF kind = "vacuumlo"
    THEN vctor' = vctor =>
             /\ Changed(vb, vb', VFields) \subseteq Changed(vlog, vlog', VFields)
             /\ Cardinality(Changed(vlog, vlog', VFields)) <= 1
    ELSE /\ Changed(rb, rb', RFields) \subseteq Changed(rlog, rlog', RFields)
         /\ Cardinality(Changed(rlog, rlog', RFields)) <= 1

\* C12: no cross-field validation: every configuration call succeeds in every
\* builder state, whether a flag's tokens are emitted depends on that flag's
\* own field only (conflicting flags are emitted together), and a setter
\* changes its own field and no other.
C12_NoCrossFieldValidation ==
    []C12_NoValidationState /\ [][C12_NoValidationStep]_vars

C12_Witness ==
    /\ kind = "pg_restore"
    /\ rb.data_only /\ rb.schema_only
    /\ rb.no_password /\ rb.password
    /\ ~IsSome(rb.role)
    /\ {"--data-only", "--schema-only", "--no-password", "--password"}
           \subseteq Range(R_get_args(rb))

====
